---- MODULE Spec2Model ----
(***************************************************************************)
(* Model of the quote-building pipeline of pricing_engine.py:              *)
(* parse_transcript, compute_confidence, apply_margin_protection and       *)
(* build_quote, together with the three pricing_logic collaborators        *)
(* (material_db, labor_calc, vat_rules) that build_quote calls.            *)
(*                                                                         *)
(* Text is a sequence of one-character strings, so that str.lower(), the   *)
(* `in` substring test and the two regular expressions are computed on     *)
(* characters.  The character U+00B2 (superscript two) is written "sup2".  *)
(*                                                                         *)
(* Money is an integer number of units of 1/2500 EUR (25 units = 1 cent),  *)
(* hours are quarter-hours, confidences are tenths, VAT rates and city     *)
(* multipliers are percents.  With collaborator results that are multiples *)
(* of 5 cents every product the code forms (x * 0.12, x * vat_rate) is an  *)
(* integer number of units, so the arithmetic below is exact; round(x, 2)  *)
(* is the only place where precision is dropped, as in the code.           *)
(***************************************************************************)
EXTENDS Integers, Sequences, FiniteSets

\* ------------------------------------------------------------------------
\* Bounds
\* ------------------------------------------------------------------------
\* Largest number of vocabulary fragments in a transcript.
MaxWords == 2

\* ------------------------------------------------------------------------
\* Characters and strings
\* ------------------------------------------------------------------------
UpperCase ==
    <<"A","B","C","D","E","F","G","H","I","J","K","L","M",
      "N","O","P","Q","R","S","T","U","V","W","X","Y","Z">>

LowerCase ==
    <<"a","b","c","d","e","f","g","h","i","j","k","l","m",
      "n","o","p","q","r","s","t","u","v","w","x","y","z">>

Digits == <<"0","1","2","3","4","5","6","7","8","9">>

\* The lower-case letter of each upper-case letter.
UpperToLower ==
    [c \in {UpperCase[k] : k \in 1..26} |->
        LowerCase[CHOOSE k \in 1..26 : UpperCase[k] = c]]

\* str.lower() on one character.
LowerChar(c) == IF c \in DOMAIN UpperToLower THEN UpperToLower[c] ELSE c

\* text.lower()
ToLower(s) == [k \in 1..Len(s) |-> LowerChar(s[k])]

\* p occurs in s starting at position k (1-based).
OccursAt(s, p, k) ==
    /\ k >= 1
    /\ k + Len(p) - 1 <= Len(s)
    /\ \A j \in 1..Len(p) : s[k + j - 1] = p[j]

\* The Python test `p in s`.
Contains(s, p) == \E k \in 1..(Len(s) - Len(p) + 1) : OccursAt(s, p, k)

\* The value of each decimal digit.
DigitValues == [c \in {Digits[d] : d \in 1..10} |-> (CHOOSE d \in 1..10 : Digits[d] = c) - 1]

IsDigit(c) == c \in DOMAIN DigitValues

DigitValue(c) == DigitValues[c]

\* Python's \s on the characters a transcript can hold.
IsSpace(c) == c \in {" ", "\t", "\n"}

\* Absent value (Python None) of an optional number or string.
None == -1

NoCity == "None"


\* ------------------------------------------------------------------------
\* Literals of parse_transcript (all matched against text.lower())
\* ------------------------------------------------------------------------
KwBathroom ==
    <<"b","a","t","h","r","o","o","m" >>
KwBudget ==
    <<"b","u","d","g","e","t" >>
KwTile ==
    <<"t","i","l","e" >>
KwPaint ==
    <<"p","a","i","n","t" >>
KwRepaint ==
    <<"r","e","p","a","i","n","t" >>
KwPlumb ==
    <<"p","l","u","m","b" >>
KwToilet ==
    <<"t","o","i","l","e","t" >>
KwVanity ==
    <<"v","a","n","i","t","y" >>
KwRemoveOldTile ==
    <<"r","e","m","o","v","e"," ","o","l","d"," ","t","i","l","e" >>
KwRemoveTheOldTiles ==
    <<"r","e","m","o","v","e"," ","t","h","e"," ","o","l","d"," ","t","i","l","e","s" >>
KwMarseille ==
    <<"m","a","r","s","e","i","l","l","e" >>
KwParis ==
    <<"p","a","r","i","s" >>
KwLyon ==
    <<"l","y","o","n" >>

\* Task names appended by parse_transcript.
FloorTiling ==
    <<"F","l","o","o","r"," ","T","i","l","i","n","g"," ","(","c","e","r","a","m","i","c",")" >>
RepaintWalls ==
    <<"R","e","p","a","i","n","t"," ","W","a","l","l","s" >>
ShowerPlumbing ==
    <<"S","h","o","w","e","r"," ","P","l","u","m","b","i","n","g"," ","(","r","e","d","o",")" >>
ReplaceToilet ==
    <<"R","e","p","l","a","c","e"," ","T","o","i","l","e","t" >>
InstallVanity ==
    <<"I","n","s","t","a","l","l"," ","V","a","n","i","t","y" >>
DemolitionDisposal ==
    <<"D","e","m","o","l","i","t","i","o","n"," ","&"," ","D","i","s","p","o","s","a","l" >>

\* Substrings build_quote looks for in a task name (case-sensitive).
\* Mutant of SubTile: the substring that does occur in the tiling task's name.
SubTil ==
    <<"T","i","l" >>

SubTile ==
    <<"T","i","l","e" >>
SubPaint ==
    <<"P","a","i","n","t" >>
SubPlumbing ==
    <<"P","l","u","m","b","i","n","g" >>
SubToilet ==
    <<"T","o","i","l","e","t" >>
SubVanity ==
    <<"V","a","n","i","t","y" >>
SubDemolition ==
    <<"D","e","m","o","l","i","t","i","o","n" >>

\* ------------------------------------------------------------------------
\* Transcripts: up to MaxWords fragments joined by single spaces
\* ------------------------------------------------------------------------
FragTiles ==
    <<"n","e","w"," ","t","i","l","e","s" >>
FragRepaint ==
    <<"R","e","p","a","i","n","t" >>
FragPlumbing ==
    <<"p","l","u","m","b","i","n","g" >>
FragToilet ==
    <<"t","o","i","l","e","t" >>
FragVanity ==
    <<"v","a","n","i","t","y" >>
FragRemove ==
    <<"R","e","m","o","v","e"," ","t","h","e"," ","o","l","d"," ","t","i","l","e","s" >>
FragArea4 ==
    <<"4","m","sup2" >>
FragArea0 ==
    <<"0"," ","M","2" >>
FragParis ==
    <<"i","n"," ","P","a","r","i","s" >>
FragLyon ==
    <<"L","Y","O","N" >>
FragBathroom ==
    <<"b","u","d","g","e","t"," ","b","a","t","h","r","o","o","m" >>

\* The transcript of test_build_quote_sample_transcript, shortened: the same
\* signals in the same order.
FragSample ==
    <<
    "R","e","n","o","v","a","t","e"," ","a"," ","s","m","a","l","l"," ","4","m","sup2"," ",
    "b","a","t","h","r","o","o","m",":"," ","r","e","m","o","v","e"," ","t","h","e"," ","o",
    "l","d"," ","t","i","l","e","s",","," ","r","e","d","o"," ","t","h","e"," ","p","l","u",
    "m","b","i","n","g",","," ","r","e","p","l","a","c","e"," ","t","h","e"," ","t","o","i",
    "l","e","t",","," ","i","n","s","t","a","l","l"," ","a"," ","v","a","n","i","t","y",",",
    " ","r","e","p","a","i","n","t"," ","t","h","e"," ","w","a","l","l","s","."," ","B","u",
    "d","g","e","t","-","c","o","n","s","c","i","o","u","s","."," ","L","o","c","a","t","e",
    "d"," ","i","n"," ","M","a","r","s","e","i","l","l","e","." >>

Vocabulary ==
    <<FragTiles, FragRepaint, FragPlumbing, FragToilet, FragVanity, FragRemove,
      FragArea4, FragArea0, FragParis, FragLyon, FragBathroom, FragSample>>

\* Index in Vocabulary of the fragment that names a known city.
CityWord == CHOOSE w \in 1..Len(Vocabulary) : Vocabulary[w] = FragParis

RECURSIVE TextOf(_)
\* The text of a transcript given as a sequence of Vocabulary indices.
TextOf(ws) ==
    IF ws = <<>> THEN <<>>
    ELSE IF Len(ws) = 1 THEN Vocabulary[ws[1]]
    ELSE Vocabulary[ws[1]] \o <<" ">> \o TextOf(Tail(ws))

Transcripts == UNION {[1..n -> 1..Len(Vocabulary)] : n \in 0..MaxWords}

\* ------------------------------------------------------------------------
\* parse_transcript
\* ------------------------------------------------------------------------
\* Last position of the run of digits that starts at k.
DigitRunEnd(s, k) ==
    CHOOSE e \in k..Len(s) :
        /\ \A j \in k..e : IsDigit(s[j])
        /\ (e = Len(s) \/ ~IsDigit(s[e + 1]))

\* m followed by superscript two or by 2, at position k.
UnitAt(s, k) ==
    /\ k + 1 <= Len(s)
    /\ s[k] = "m"
    /\ s[k + 1] \in {"sup2", "2"}

\* The pattern (\d+)\s?m[²2] matches s from position k on.  \d+ takes the
\* whole run of digits: after a shorter one the next character is a digit,
\* which neither \s nor m matches.
AreaMatchesAt(s, k) ==
    /\ IsDigit(s[k])
    /\ LET e == DigitRunEnd(s, k)
       IN  \/ (e + 1 <= Len(s) /\ IsSpace(s[e + 1]) /\ UnitAt(s, e + 2))
           \/ UnitAt(s, e + 1)

RECURSIVE DigitsToNumber(_)
\* float(group(1)) for a string of decimal digits.
DigitsToNumber(ds) ==
    IF ds = <<>> THEN 0
    ELSE 10 * DigitsToNumber(SubSeq(ds, 1, Len(ds) - 1)) + DigitValue(ds[Len(ds)])

\* re.search(r"(\d+)\s?m[²2]", text.lower()): the leftmost match, or None.
AreaOf(text) ==
    LET s == ToLower(text)
        hits == {k \in 1..Len(s) : AreaMatchesAt(s, k)}
    IN  IF hits = {} THEN None
        ELSE LET k == CHOOSE h \in hits : \A g \in hits : h <= g
             IN  DigitsToNumber(SubSeq(s, k, DigitRunEnd(s, k)))

\* The alternatives of (marseille|paris|lyon) with group(1).capitalize().
CityNames ==
    <<[pattern |-> KwMarseille, capitalized |-> "Marseille"],
      [pattern |-> KwParis, capitalized |-> "Paris"],
      [pattern |-> KwLyon, capitalized |-> "Lyon"]>>

\* re.search(r"(marseille|paris|lyon)", text.lower()): the leftmost match,
\* alternatives tried in order at each position; NoCity when none matches.
CityOf(text) ==
    LET s == ToLower(text)
        hits == {k \in 1..Len(s) : \E c \in 1..Len(CityNames) :
                                      OccursAt(s, CityNames[c].pattern, k)}
    IN  IF hits = {} THEN NoCity
        ELSE LET k == CHOOSE h \in hits : \A g \in hits : h <= g
                 c == CHOOSE a \in 1..Len(CityNames) :
                        /\ OccursAt(s, CityNames[a].pattern, k)
                        /\ \A b \in 1..(a - 1) : ~OccursAt(s, CityNames[b].pattern, k)
             IN  CityNames[c].capitalized

\* A task dict: has_area says whether the key "area_m2" is present.
TaskWithArea(name, area) == [task_name |-> name, has_area |-> TRUE, area_m2 |-> area]

TaskWithoutArea(name) == [task_name |-> name, has_area |-> FALSE, area_m2 |-> None]

\* The keywords of the six `if ...: tasks.append(...)` statements, in
\* source order; a statement fires when one of its keywords is in the
\* lowered text.
KeywordsOf(n) ==
    CASE n = 1 -> {KwTile}
      [] n = 2 -> {KwPaint, KwRepaint}
      [] n = 3 -> {KwPlumb}
      [] n = 4 -> {KwToilet}
      [] n = 5 -> {KwVanity}
      [] n = 6 -> {KwRemoveOldTile, KwRemoveTheOldTiles}

TriggerPresent(s, n) == \E kw \in KeywordsOf(n) : Contains(s, kw)

\* The task each of the six statements appends.
TriggerTask(n, area_m2) ==
    CASE n = 1 -> TaskWithArea(FloorTiling, area_m2)
      [] n = 2 -> TaskWithoutArea(RepaintWalls)
      [] n = 3 -> TaskWithoutArea(ShowerPlumbing)
      [] n = 4 -> TaskWithoutArea(ReplaceToilet)
      [] n = 5 -> TaskWithoutArea(InstallVanity)
      [] n = 6 -> TaskWithoutArea(DemolitionDisposal)

\* Number of trigger statements.
TriggerCount == 6

RECURSIVE TasksAfterPrepend(_, _, _)
\* Mutant of TasksAfter: each statement inserts its task at the front.
TasksAfterPrepend(s, area_m2, n) ==
    IF n = 0 THEN <<>>
    ELSE LET before == TasksAfterPrepend(s, area_m2, n - 1)
         IN  IF TriggerPresent(s, n) THEN <<TriggerTask(n, area_m2)>> \o before
             ELSE before

RECURSIVE TasksAfter(_, _, _)
\* tasks after the first n trigger statements have run.
TasksAfter(s, area_m2, n) ==
    IF n = 0 THEN <<>>
    ELSE LET before == TasksAfter(s, area_m2, n - 1)
         IN  IF TriggerPresent(s, n) THEN Append(before, TriggerTask(n, area_m2))
             ELSE before

parse_transcript(text) ==
    LET s == ToLower(text)
        area_m2 == AreaOf(text)
    IN  [zone |-> IF Contains(s, KwBathroom) THEN "bathroom" ELSE "general",
         city |-> CityOf(text),
         budget_flag |-> Contains(s, KwBudget),
         tasks |-> TasksAfter(s, area_m2, TriggerCount),
         area_m2 |-> area_m2]

\* ------------------------------------------------------------------------
\* Numbers
\* ------------------------------------------------------------------------
\* Money units in one cent (money is counted in 1/2500 EUR).
UnitsPerCent == 25

\* An amount given in cents, in money units.
Cents(c) == c * UnitsPerCent

\* n / d rounded to the nearest integer, ties to the even one: Python's
\* round() on an exactly represented value.
RoundHalfEven(n, d) ==
    LET q == n \div d
        r == n % d
    IN  IF 2 * r > d \/ (2 * r = d /\ q % 2 = 1) THEN q + 1 ELSE q

\* round(x, 2) of an amount of money: the result is in cents.
Round2(x) == RoundHalfEven(x, UnitsPerCent)

Max(a, b) == IF a >= b THEN a ELSE b

Min(a, b) == IF a <= b THEN a ELSE b

\* ------------------------------------------------------------------------
\* pricing_logic collaborators: material_db, labor_calc, vat_rules
\* ------------------------------------------------------------------------
Cities == {"Marseille", "Paris", "Lyon"}

Skus ==
    {"tiles_ceramic_m2", "paint_litre", "plumbing_parts",
     "toilet_standard", "vanity_basic", "disposal_fee"}

\* The tables with the values the tests document: 40 EUR per hour and a
\* multiplier of 1.0 in Marseille, 1.25 in Paris, 25 EUR per m2 of
\* ceramic tiles, 20 % VAT.
ReferenceTables ==
    [hourly_cents |-> [c \in Cities |->
                         CASE c = "Marseille" -> 4000
                           [] c = "Paris" -> 5000
                           [] c = "Lyon" -> 4400],
     default_hourly_cents |-> 4000,
     multiplier_pct |-> [c \in Cities |->
                         CASE c = "Marseille" -> 100
                           [] c = "Paris" -> 125
                           [] c = "Lyon" -> 110],
     default_multiplier_pct |-> 100,
     price_cents |-> [s \in Skus |->
                         CASE s = "tiles_ceramic_m2" -> 2500
                           [] s = "paint_litre" -> 1200
                           [] s = "plumbing_parts" -> 9000
                           [] s = "toilet_standard" -> 15000
                           [] s = "vanity_basic" -> 18000
                           [] s = "disposal_fee" -> 5000],
     reduced_vat_tasks |-> {},
     reduced_vat_pct |-> 10,
     default_vat_pct |-> 20]

\* The same services holding list prices that are not whole euros, a
\* reduced VAT rate for repainting, and no entry for Lyon (an unknown city
\* falls back to the default rate and multiplier).
RetailTables ==
    [ReferenceTables EXCEPT
        !.hourly_cents = [c \in {"Marseille", "Paris"} |->
                            ReferenceTables.hourly_cents[c]],
        !.multiplier_pct = [c \in {"Marseille", "Paris"} |->
                            ReferenceTables.multiplier_pct[c]],
        !.price_cents = [s \in Skus |->
                         CASE s = "tiles_ceramic_m2" -> 2480
                           [] s = "paint_litre" -> 1180
                           [] s = "plumbing_parts" -> 8920
                           [] s = "toilet_standard" -> 14980
                           [] s = "vanity_basic" -> 17940
                           [] s = "disposal_fee" -> 5000],
        !.reduced_vat_tasks = {RepaintWalls}]

\* The rate tables the collaborators may hold at call time.
Providers == {ReferenceTables, RetailTables}

\* labor_calc.hourly_rate(city), in cents per hour.
hourly_rate(tables, city) ==
    IF city \in DOMAIN tables.hourly_cents
    THEN tables.hourly_cents[city]
    ELSE tables.default_hourly_cents

\* labor_calc.estimate_hours(task_name, area=...), in quarter-hours:
\* 0.9 hour per m2 for tiling when an area is given, else a duration keyed
\* by the task name; rounded up to the next quarter-hour.
estimate_hours(tname, area) ==
    IF tname = FloorTiling /\ area # None THEN (36 * area + 9) \div 10
    ELSE CASE tname = FloorTiling -> 16
           [] tname = RepaintWalls -> 16
           [] tname = ShowerPlumbing -> 12
           [] tname = ReplaceToilet -> 6
           [] tname = InstallVanity -> 8
           [] tname = DemolitionDisposal -> 8
           [] OTHER -> 8

\* labor_calc.compute_labor_cost(hours, city) = hours * hourly_rate(city).
compute_labor_cost(tables, hours, city) ==
    (hours * Cents(hourly_rate(tables, city))) \div 4

\* material_db.get_material_cost(sku, quantity, city)
\*   = unit price * quantity * city multiplier.
get_material_cost(tables, sku, quantity, city) ==
    LET mult == IF city \in DOMAIN tables.multiplier_pct
                THEN tables.multiplier_pct[city]
                ELSE tables.default_multiplier_pct
    IN  (Cents(tables.price_cents[sku]) * quantity * mult) \div 100

\* vat_rules.get_vat_rate(task_name, city), in percent.
get_vat_rate(tables, tname, city) ==
    IF tname \in tables.reduced_vat_tasks
    THEN tables.reduced_vat_pct
    ELSE tables.default_vat_pct

\* ------------------------------------------------------------------------
\* apply_margin_protection, compute_confidence
\* ------------------------------------------------------------------------
\* default_margin = 0.12 and min_margin = 0.05, in percent.
DefaultMargin == 12

MinMargin == 5

apply_margin_protection(base_price, default_margin, min_margin) ==
    LET margin_pct == Max(default_margin, min_margin)
    IN  [margin_pct |-> margin_pct,
         margin_amount |-> (base_price * margin_pct) \div 100]

\* Truth value of a city argument: None and "" are false.
CityGiven(city) == city # NoCity /\ city # ""

\* Truth value of task.get("area_m2"): None and 0.0 are false.
AreaGiven(task) == task.has_area /\ task.area_m2 # None /\ task.area_m2 # 0

\* compute_confidence(task, city), in tenths.
compute_confidence(task, city) ==
    LET name_part == IF task.task_name # <<>> THEN 4 ELSE 0
        area_part == IF AreaGiven(task) \/ ~task.has_area THEN 2 ELSE 0
        city_part == IF CityGiven(city) THEN 2 ELSE 1
        db_part == 2
    IN  Min(name_part + area_part + city_part + db_part, 10)

\* ------------------------------------------------------------------------
\* build_quote: one iteration of `for task in parsed["tasks"]`
\* ------------------------------------------------------------------------
\* task.get("area_m2"): None when the key is absent.
GetArea(task) == IF task.has_area THEN task.area_m2 ELSE None

\* task.get("area_m2", 4): the default only when the key is absent.
TileQuantity(task) == IF task.has_area THEN task.area_m2 ELSE 4

\* A material line; unit_cost = cost / qty is kept as the exact quotient.
MaterialLine(sku, qty, cost) ==
    [name |-> sku, qty |-> qty, unit_cost |-> [num |-> cost, den |-> qty], total |-> cost]

\* The if/elif chain on the task name: the branch taken, as the SKU and
\* the quantity it asks for; "" when no branch is taken.
MaterialBranch(task) ==
    LET tname == task.task_name
    IN  IF Contains(tname, SubTile)
          THEN [sku |-> "tiles_ceramic_m2", qty |-> TileQuantity(task)]
        ELSE IF Contains(tname, SubPaint)
          THEN [sku |-> "paint_litre", qty |-> 5]
        ELSE IF Contains(tname, SubPlumbing)
          THEN [sku |-> "plumbing_parts", qty |-> 1]
        ELSE IF Contains(tname, SubToilet)
          THEN [sku |-> "toilet_standard", qty |-> 1]
        ELSE IF Contains(tname, SubVanity)
          THEN [sku |-> "vanity_basic", qty |-> 1]
        ELSE IF Contains(tname, SubDemolition)
          THEN [sku |-> "disposal_fee", qty |-> 1]
        ELSE [sku |-> "", qty |-> 0]

\* cost / qty raises for qty = None (TypeError) and qty = 0
\* (ZeroDivisionError); only the tile branch has a variable quantity.
MaterialsRaise(task) ==
    LET b == MaterialBranch(task)
    IN  b.sku # "" /\ (b.qty = None \/ b.qty = 0)

\* materials and mat_cost after the chain.
Materials(tables, task, city) ==
    LET b == MaterialBranch(task)
    IN  IF b.sku = "" \/ MaterialsRaise(task)
        THEN [materials |-> <<>>, mat_cost |-> 0]
        ELSE LET cost == get_material_cost(tables, b.sku, b.qty, city)
             IN  [materials |-> <<MaterialLine(b.sku, b.qty, cost)>>,
                  mat_cost |-> cost]

\* Mutant of PriceExVat: the margin is left out of the price.
PriceExVatWithoutMargin(base_price, margin_amount) == base_price

\* price_ex_vat = base_price + margin_amount
PriceExVat(base_price, margin_amount) == base_price + margin_amount

\* vat_amount = price_ex_vat * vat_rate
VatAmount(price_ex_vat, vat_rate) == (price_ex_vat * vat_rate) \div 100

\* total_task_price = price_ex_vat + vat_amount
TotalTaskPrice(price_ex_vat, vat_amount) == price_ex_vat + vat_amount

\* The values one iteration computes: the unrounded amounts that go to the
\* accumulators and the record appended to tasks_out.
PriceTask(tables, task, city, hourly, conf_city) ==
    LET tname == task.task_name
        hours == estimate_hours(tname, GetArea(task))
        labor_cost == compute_labor_cost(tables, hours, city)
        mats == Materials(tables, task, city)
        base_price == labor_cost + mats.mat_cost
        margin == apply_margin_protection(base_price, DefaultMargin, MinMargin)
        price_ex_vat == PriceExVat(base_price, margin.margin_amount)
        vat_rate == get_vat_rate(tables, tname, city)
        vat_amount == VatAmount(price_ex_vat, vat_rate)
        total_task_price == TotalTaskPrice(price_ex_vat, vat_amount)
        confidence == compute_confidence(task, conf_city)
    IN  [labor_cost |-> labor_cost,
         mat_cost |-> mats.mat_cost,
         vat_amount |-> vat_amount,
         total_task_price |-> total_task_price,
         hours |-> hours,
         confidence |-> confidence,
         record |->
            [task_name |-> tname,
             area_m2 |-> GetArea(task),
             labor |-> [hours |-> hours, hourly_rate |-> hourly, cost |-> labor_cost],
             materials |-> mats.materials,
             estimated_duration_hours |-> hours,
             vat_rate |-> vat_rate,
             margin_pct |-> margin.margin_pct,
             price_ex_vat |-> Round2(price_ex_vat),
             vat_amount |-> Round2(vat_amount),
             total_price |-> Round2(total_task_price),
             confidence |-> 10 * confidence]]

\* Mutant of Accumulate: the rounded amount is added to the total.
AccumulateRounded(total, amount) == total + Cents(Round2(amount))

\* `total += amount` on one of the money accumulators.
Accumulate(total, amount) == total + amount

\* ------------------------------------------------------------------------
\* build_quote: after the loop
\* ------------------------------------------------------------------------
\* Mutant of GlobalConf: 1.0 instead of 0.0 when nothing was priced.
GlobalConfDefaultOne(conf_sum, cost_sum) ==
    IF cost_sum # 0 THEN [num |-> conf_sum, den |-> cost_sum]
    ELSE [num |-> 10, den |-> 1]

\* global_conf = weighted_conf_sum / weighted_cost_sum if weighted_cost_sum
\* else 0.0, kept as the exact fraction num / den counted in tenths.
GlobalConf(conf_sum, cost_sum) ==
    IF cost_sum # 0 THEN [num |-> conf_sum, den |-> cost_sum]
    ELSE [num |-> 0, den |-> 1]

\* The threshold 0.6 of suspicious_input, in tenths.
SuspiciousBelow == 6

\* Mutant of SuspiciousInput: the flag is raised below 0.9.
SuspiciousInputBelowNine(global_conf) == global_conf.num < 9 * global_conf.den

\* global_conf < 0.6
SuspiciousInput(global_conf) == global_conf.num < SuspiciousBelow * global_conf.den

\* round(global_conf, 2), in hundredths.
ConfidenceScore(global_conf) == RoundHalfEven(10 * global_conf.num, global_conf.den)

\* generate_quote_id(): "donizo-" and the first 8 hexadecimal digits of a
\* random UUID; two of the 16^8 values stand for them.
QuoteIds == {"donizo-1b9d6bcd", "donizo-f47ac10b"}

\* The value held where no quote has been returned yet.
NoQuote == [quote_id |-> ""]

\* ------------------------------------------------------------------------
\* State
\* ------------------------------------------------------------------------
VARIABLES
    tables,               \* the rate tables the collaborators hold
    pc,                   \* "idle", "loop", "done" or "raised"
    transcript_text,      \* the argument of the running or last call
    parsed,               \* parse_transcript(transcript_text)
    city,                 \* parsed["city"] or "Generic"
    zone_name,
    hourly,
    next_task,            \* index in parsed["tasks"] of the next iteration
    tasks_out,
    total_labor_cost,
    total_material_cost,
    total_vat,
    total_price,
    total_hours,
    weighted_conf_sum,
    weighted_cost_sum,
    out_json,             \* the quote the last completed call returned
    previous_json         \* the quote the call before it returned

vars ==
    <<tables, pc, transcript_text, parsed, city, zone_name, hourly, next_task,
      tasks_out, total_labor_cost, total_material_cost, total_vat, total_price,
      total_hours, weighted_conf_sum, weighted_cost_sum, out_json, previous_json>>

accumulators ==
    <<total_labor_cost, total_material_cost, total_vat, total_price,
      total_hours, weighted_conf_sum, weighted_cost_sum>>

\* city = parsed["city"] or "Generic"
CityOrGeneric(p) == IF CityGiven(p.city) THEN p.city ELSE "Generic"

\* Mutant of ConfidenceCity: parsed["city"], which may be None.
ConfidenceCityParsed(p, local_city) == p.city

\* The city build_quote hands to compute_confidence: its local `city`
\* (already defaulted), not parsed["city"].
ConfidenceCity(p, local_city) == local_city

Init ==
    /\ tables \in Providers
    /\ pc = "idle"
    /\ transcript_text = <<>>
    /\ parsed = parse_transcript(<<>>)
    /\ city = "Generic"
    /\ zone_name = "general"
    /\ hourly = 0
    /\ next_task = 1
    /\ tasks_out = <<>>
    /\ total_labor_cost = 0
    /\ total_material_cost = 0
    /\ total_vat = 0
    /\ total_price = 0
    /\ total_hours = 0
    /\ weighted_conf_sum = 0
    /\ weighted_cost_sum = 0
    /\ out_json = NoQuote
    /\ previous_json = NoQuote

\* The transcripts a call may be made with: any transcript for the first
\* call; afterwards the same transcript again, or, when it names no city,
\* the same transcript with a known city added.
CallArguments ==
    IF pc = "idle" THEN Transcripts
    ELSE {transcript_text}
         \cup (IF parsed.city = NoCity
               THEN {Append(transcript_text, CityWord)} ELSE {})

\* build_quote(transcript_text), up to the loop: lines 85-99.
Call ==
    /\ pc \in {"idle", "done"}
    /\ \E t \in CallArguments :
         /\ transcript_text' = t
         /\ parsed' = parse_transcript(TextOf(t))
    /\ city' = CityOrGeneric(parsed')
    /\ zone_name' = parsed'.zone
    /\ hourly' = hourly_rate(tables, city')
    /\ next_task' = 1
    /\ tasks_out' = <<>>
    /\ total_labor_cost' = 0
    /\ total_material_cost' = 0
    /\ total_vat' = 0
    /\ total_price' = 0
    /\ total_hours' = 0
    /\ weighted_conf_sum' = 0
    /\ weighted_cost_sum' = 0
    /\ previous_json' = out_json
    /\ pc' = "loop"
    /\ UNCHANGED <<tables, out_json>>

\* One iteration of the loop: lines 101-174.  An exception in the
\* materials chain ends the call without a quote.
ProcessTask ==
    /\ pc = "loop"
    /\ next_task <= Len(parsed.tasks)
    /\ LET task == parsed.tasks[next_task]
           r == PriceTask(tables, task, city, hourly, ConfidenceCity(parsed, city))
       IN  IF MaterialsRaise(task)
           THEN /\ pc' = "raised"
                /\ UNCHANGED <<next_task, tasks_out, accumulators>>
           ELSE /\ tasks_out' = Append(tasks_out, r.record)
                /\ total_labor_cost' = Accumulate(total_labor_cost, r.labor_cost)
                /\ total_material_cost' = Accumulate(total_material_cost, r.mat_cost)
                /\ total_vat' = Accumulate(total_vat, r.vat_amount)
                /\ total_price' = Accumulate(total_price, r.total_task_price)
                /\ total_hours' = total_hours + r.hours
                /\ weighted_conf_sum' = weighted_conf_sum + r.confidence * r.total_task_price
                /\ weighted_cost_sum' = weighted_cost_sum + r.total_task_price
                /\ next_task' = next_task + 1
                /\ pc' = "loop"
    /\ UNCHANGED <<tables, transcript_text, parsed, city, zone_name, hourly,
                   out_json, previous_json>>

\* The quote build_quote returns: lines 176-194.
Quote(quote_id, global_conf) ==
    [system |-> "T",
     quote_id |-> quote_id,
     client |-> [raw_transcript |-> transcript_text, location |-> city],
     currency |-> "EUR",
     zones |-> <<[zone_name |-> zone_name, tasks |-> tasks_out]>>,
     summary |->
        [total_labor_cost |-> Round2(total_labor_cost),
         total_material_cost |-> Round2(total_material_cost),
         total_vat |-> Round2(total_vat),
         total_price |-> Round2(total_price),
         estimated_duration_hours |-> total_hours,
         confidence_score |-> ConfidenceScore(global_conf),
         suspicious_input |-> SuspiciousInput(global_conf)]]

\* The end of the loop and the return: lines 176-194.
Return ==
    /\ pc = "loop"
    /\ next_task > Len(parsed.tasks)
    /\ \E id \in QuoteIds :
         out_json' = Quote(id, GlobalConf(weighted_conf_sum, weighted_cost_sum))
    /\ pc' = "done"
    /\ UNCHANGED <<tables, transcript_text, parsed, city, zone_name, hourly, next_task,
                   tasks_out, accumulators, previous_json>>

Next == Call \/ ProcessTask \/ Return

Spec == Init /\ [][Next]_vars

\* ------------------------------------------------------------------------
\* Reading a quote
\* ------------------------------------------------------------------------
Returned(q) == q # NoQuote

TasksOf(q) == q.zones[1].tasks

RECURSIVE SumOver(_, _, _)
\* Op(seq[1]) + ... + Op(seq[n])
SumOver(Op(_), seq, n) == IF n = 0 THEN 0 ELSE SumOver(Op, seq, n - 1) + Op(seq[n])

LineTotal(line) == line.total

\* base_cost = labor.cost + sum of materials[].total of an emitted record.
BaseCost(t) == t.labor.cost + SumOver(LineTotal, t.materials, Len(t.materials))

\* base_cost * (1 + margin_pct), unrounded.
ExactPriceExVat(t) == (BaseCost(t) * (100 + t.margin_pct)) \div 100

\* The unrounded VAT and total of an emitted record.
ExactVat(t) == (ExactPriceExVat(t) * t.vat_rate) \div 100

ExactTotal(t) == ExactPriceExVat(t) + ExactVat(t)

LaborCostOf(t) == t.labor.cost

MaterialCostOf(t) == SumOver(LineTotal, t.materials, Len(t.materials))

HoursOf(t) == t.labor.hours

EmittedTotalOf(t) == t.total_price

Abs(x) == IF x < 0 THEN -x ELSE x

\* Every product formed from a collaborator result is a whole number of
\* money units (the model's arithmetic is exact).
ArithmeticExact ==
    \A k \in 1..Len(tasks_out) :
        LET t == tasks_out[k]
        IN  /\ (BaseCost(t) * (100 + t.margin_pct)) % 100 = 0
            /\ (ExactPriceExVat(t) * t.vat_rate) % 100 = 0

\* ------------------------------------------------------------------------
\* C1
\* ------------------------------------------------------------------------
\* C1 (as stated): in every emitted task record the fields satisfy
\* total_price = round(price_ex_vat + vat_amount, 2), with price_ex_vat and
\* vat_amount the rounded fields of the record, and
\* price_ex_vat = round(base_cost * (1 + margin_pct), 2).
C1_FieldsAddUp ==
    \A k \in 1..Len(tasks_out) :
        LET t == tasks_out[k]
        IN  /\ t.total_price = t.price_ex_vat + t.vat_amount
            /\ t.price_ex_vat = Round2(ExactPriceExVat(t))

\* C1 (amended): total_price is the unrounded price_ex_vat + vat_amount
\* rounded once, so it is within one cent of the sum of the two rounded
\* fields; price_ex_vat = round(base_cost * (1 + margin_pct), 2).
C1_RoundedOnce ==
    \A k \in 1..Len(tasks_out) :
        LET t == tasks_out[k]
        IN  /\ t.total_price = Round2(ExactPriceExVat(t) + ExactVat(t))
            /\ Abs(t.total_price - (t.price_ex_vat + t.vat_amount)) <= 1
            /\ t.price_ex_vat = Round2(ExactPriceExVat(t))
            /\ t.vat_amount = Round2(ExactVat(t))

\* A returned quote holds a record with materials whose total_price differs
\* from the sum of its two rounded fields.
C1_Witness ==
    /\ pc = "done"
    /\ \E k \in 1..Len(TasksOf(out_json)) :
        LET t == TasksOf(out_json)[k]
        IN  /\ t.materials # <<>>
            /\ t.total_price # t.price_ex_vat + t.vat_amount

\* ------------------------------------------------------------------------
\* C2
\* ------------------------------------------------------------------------
\* C2: in a returned quote each summary total is the sum over the tasks of
\* the unrounded per-task value, rounded once to 2 decimals, and
\* summary.total_price equals the sum of the emitted tasks[].total_price
\* within a relative tolerance of 1e-2.
C2_SummaryTotals ==
    pc = "done" =>
        LET ts == TasksOf(out_json)
            s == out_json.summary
            n == Len(ts)
        IN  /\ s.total_labor_cost = Round2(SumOver(LaborCostOf, ts, n))
            /\ s.total_material_cost = Round2(SumOver(MaterialCostOf, ts, n))
            /\ s.total_vat = Round2(SumOver(ExactVat, ts, n))
            /\ s.total_price = Round2(SumOver(ExactTotal, ts, n))
            /\ s.estimated_duration_hours = SumOver(HoursOf, ts, n)
            /\ 100 * Abs(SumOver(EmittedTotalOf, ts, n) - s.total_price) <= s.total_price

\* A returned quote with several tasks whose rounded prices do not add up
\* to the summary's total_price.
C2_Witness ==
    /\ pc = "done"
    /\ Len(TasksOf(out_json)) >= 2
    /\ SumOver(EmittedTotalOf, TasksOf(out_json), Len(TasksOf(out_json)))
         # out_json.summary.total_price

\* ------------------------------------------------------------------------
\* C3
\* ------------------------------------------------------------------------
\* C3: in a returned quote confidence_score is in [0, 1] and
\* suspicious_input is true exactly when the emitted confidence_score is
\* below 0.6.
C3_ScoreAndFlag ==
    pc = "done" =>
        LET s == out_json.summary
        IN  /\ s.confidence_score \in 0..100
            /\ s.suspicious_input <=> (s.confidence_score < 60)

\* A returned quote with tasks of different confidence that is not flagged.
C3_Witness ==
    /\ pc = "done"
    /\ ~out_json.summary.suspicious_input
    /\ out_json.summary.confidence_score \in 81..99

\* ------------------------------------------------------------------------
\* C4
\* ------------------------------------------------------------------------
\* None of the trigger substrings occurs in the lowered text.
NoTrigger(text) ==
    LET s == ToLower(text)
    IN  \A kw \in {KwTile, KwPaint, KwRepaint, KwPlumb, KwToilet, KwVanity,
                   KwRemoveOldTile, KwRemoveTheOldTiles} : ~Contains(s, kw)

\* C4: a transcript with no trigger substring yields one zone with no task,
\* total_price 0.0, confidence_score 0.0 and suspicious_input true.
C4_NoTaskQuote ==
    (pc = "done" /\ NoTrigger(TextOf(out_json.client.raw_transcript))) =>
        /\ Len(out_json.zones) = 1
        /\ TasksOf(out_json) = <<>>
        /\ out_json.summary.total_price = 0
        /\ out_json.summary.confidence_score = 0
        /\ out_json.summary.suspicious_input

\* A quote returned for a transcript that has words but no trigger.
C4_Witness ==
    /\ pc = "done"
    /\ Len(transcript_text) = MaxWords
    /\ NoTrigger(TextOf(transcript_text))
    /\ out_json.summary.suspicious_input

\* ------------------------------------------------------------------------
\* C5
\* ------------------------------------------------------------------------
\* A quote with its quote_id blanked.
WithoutId(q) == [q EXCEPT !.quote_id = ""]

\* Two consecutive calls were made with the same transcript.
SameTranscriptTwice ==
    /\ pc = "done"
    /\ Returned(previous_json)
    /\ previous_json.client.raw_transcript = out_json.client.raw_transcript

\* C5: two calls with the same transcript return quotes that are identical
\* except for quote_id, and the two quote_id values differ.
C5_IdempotentUniqueId ==
    SameTranscriptTwice =>
        /\ WithoutId(previous_json) = WithoutId(out_json)
        /\ previous_json.quote_id # out_json.quote_id

\* The part of C5 that holds: the two quotes agree outside quote_id.
C5_SameOutsideId ==
    SameTranscriptTwice => WithoutId(previous_json) = WithoutId(out_json)

\* ------------------------------------------------------------------------
\* C6
\* ------------------------------------------------------------------------
\* C6: no call raises; the loop index stays within the task list, and the
\* returned quote has a record for every parsed task; it carries the
\* defaults for missing signals: the location "Generic" when no city was
\* found, a null area_m2 on the tiling task when no area was found.
C6_NeverRaises ==
    /\ pc # "raised"
    /\ pc = "loop" => next_task \in 1..(Len(parsed.tasks) + 1)
    /\ pc = "done" =>
        /\ Len(TasksOf(out_json)) = Len(parsed.tasks)
        /\ parsed.city = NoCity => out_json.client.location = "Generic"
        /\ \A k \in 1..Len(TasksOf(out_json)) :
             LET t == TasksOf(out_json)[k]
             IN  t.task_name = FloorTiling => t.area_m2 = parsed.area_m2

\* A quote returned for a transcript with a tile trigger, no area and no
\* city.
C6_Witness ==
    /\ pc = "done"
    /\ out_json.client.location = "Generic"
    /\ \E k \in 1..Len(TasksOf(out_json)) :
         /\ TasksOf(out_json)[k].task_name = FloorTiling
         /\ TasksOf(out_json)[k].area_m2 = None

\* A quote returned for a transcript whose area is 0.
C6_WitnessZeroArea ==
    /\ pc = "done"
    /\ \E k \in 1..Len(TasksOf(out_json)) :
         /\ TasksOf(out_json)[k].task_name = FloorTiling
         /\ TasksOf(out_json)[k].area_m2 = 0

\* ------------------------------------------------------------------------
\* C7
\* ------------------------------------------------------------------------
\* The last call had the transcript of the call before it with a known
\* city added, the earlier transcript naming no city and holding a task.
CityWasAdded ==
    /\ pc = "done"
    /\ Returned(previous_json)
    /\ CityOf(TextOf(previous_json.client.raw_transcript)) = NoCity
    /\ out_json.client.raw_transcript
         = Append(previous_json.client.raw_transcript, CityWord)
    /\ Len(TasksOf(previous_json)) >= 1

\* C7: every task confidence of a quote built from a transcript without a
\* city is lower than the confidence of the same task in the quote built
\* from the same transcript with a known city added.
C7_MissingCityLowersConfidence ==
    CityWasAdded =>
        /\ Len(TasksOf(previous_json)) = Len(TasksOf(out_json))
        /\ \A k \in 1..Len(TasksOf(previous_json)) :
             TasksOf(previous_json)[k].confidence < TasksOf(out_json)[k].confidence

\* ------------------------------------------------------------------------
\* C8
\* ------------------------------------------------------------------------
\* The single material line the claim gives each catalog task.
ExpectedLine(t) ==
    CASE t.task_name = FloorTiling ->
            [name |-> "tiles_ceramic_m2",
             qty |-> IF t.area_m2 = None THEN 4 ELSE t.area_m2]
      [] t.task_name = RepaintWalls -> [name |-> "paint_litre", qty |-> 5]
      [] t.task_name = ShowerPlumbing -> [name |-> "plumbing_parts", qty |-> 1]
      [] t.task_name = ReplaceToilet -> [name |-> "toilet_standard", qty |-> 1]
      [] t.task_name = InstallVanity -> [name |-> "vanity_basic", qty |-> 1]
      [] t.task_name = DemolitionDisposal -> [name |-> "disposal_fee", qty |-> 1]

CatalogNames ==
    {FloorTiling, RepaintWalls, ShowerPlumbing, ReplaceToilet, InstallVanity,
     DemolitionDisposal}

\* C8: every task name parse_transcript emits gets its one material line
\* (tiling: tiles_ceramic_m2 with the area, 4 when absent; repainting:
\* paint_litre with 5; the others their fixed line with 1).
C8_EveryTaskHasItsLine ==
    \A k \in 1..Len(tasks_out) :
        LET t == tasks_out[k]
        IN  t.task_name \in CatalogNames =>
              /\ Len(t.materials) = 1
              /\ t.materials[1].name = ExpectedLine(t).name
              /\ t.materials[1].qty = ExpectedLine(t).qty

\* What the code does: the four fixture tasks get their line.
C8_FixtureTasksHaveTheirLine ==
    \A k \in 1..Len(tasks_out) :
        LET t == tasks_out[k]
        IN  IF t.task_name \in {FloorTiling, RepaintWalls}
            THEN t.materials = <<>>
            ELSE /\ Len(t.materials) = 1
                 /\ t.materials[1].name = ExpectedLine(t).name
                 /\ t.materials[1].qty = ExpectedLine(t).qty

\* ------------------------------------------------------------------------
\* C9
\* ------------------------------------------------------------------------
\* The keywords of trigger n that hold no other keyword of it: an
\* occurrence of "repaint" is one occurrence of "paint", not two.
ShortestKeywords(n) ==
    {kw \in KeywordsOf(n) : \A other \in KeywordsOf(n) : other = kw \/ ~Contains(kw, other)}

\* The positions in the lowered text s where a keyword of trigger n occurs.
KeywordPositions(s, n) ==
    {k \in 1..Len(s) : \E kw \in ShortestKeywords(n) : OccursAt(s, kw, k)}

\* The trigger statement that appends the task called name.
TriggerOf(name) == CHOOSE n \in 1..TriggerCount : TriggerTask(n, None).task_name = name

\* Where the keyword of a task is first detected in s.
FirstDetected(s, name) ==
    LET ps == KeywordPositions(s, TriggerOf(name))
    IN  CHOOSE p \in ps : \A q \in ps : p <= q

NamesOf(ts) == [k \in 1..Len(ts) |-> ts[k].task_name]

\* C9 (as stated): the tasks of a quote are ordered by where their keyword
\* is first detected in the text, and every occurrence of a keyword
\* appends a task of its own.
C9_TextOrderPerOccurrence ==
    pc = "done" =>
        LET s == ToLower(TextOf(transcript_text))
            names == NamesOf(TasksOf(out_json))
        IN  /\ names = NamesOf(parsed.tasks)
            /\ \A k \in 1..(Len(names) - 1) :
                 FirstDetected(s, names[k]) <= FirstDetected(s, names[k + 1])
            /\ \A n \in 1..TriggerCount :
                 Cardinality({k \in 1..Len(names) : TriggerOf(names[k]) = n})
                   = Cardinality(KeywordPositions(s, n))

\* C9 (amended): the tasks of a quote are those of parse_transcript, in the
\* fixed order of the trigger statements (tile, paint, plumb, toilet,
\* vanity, demolition) wherever the keywords stand in the text, and a
\* trigger appends exactly one task when its keyword occurs at least once,
\* however often it occurs.
C9_TriggerOrderOncePerTrigger ==
    pc = "done" =>
        LET s == ToLower(TextOf(transcript_text))
            names == NamesOf(TasksOf(out_json))
        IN  /\ names = NamesOf(parsed.tasks)
            /\ \A k \in 1..(Len(names) - 1) :
                 TriggerOf(names[k]) < TriggerOf(names[k + 1])
            /\ \A n \in 1..TriggerCount :
                 (\E k \in 1..Len(names) : TriggerOf(names[k]) = n)
                   <=> KeywordPositions(s, n) # {}

\* A quote whose tasks are not in text order and one of whose keywords
\* occurs more than once in the text.
C9_Witness ==
    /\ pc = "done"
    /\ LET s == ToLower(TextOf(transcript_text))
           names == NamesOf(TasksOf(out_json))
       IN  /\ \E k \in 1..(Len(names) - 1) :
                FirstDetected(s, names[k]) > FirstDetected(s, names[k + 1])
           /\ \E n \in 1..TriggerCount : Cardinality(KeywordPositions(s, n)) >= 2

\* ------------------------------------------------------------------------
\* C10
\* ------------------------------------------------------------------------
\* C10: every task confidence is 0.8 or 1.0; the confidence_score of a
\* returned quote is 0 (exactly when the task prices sum to zero) or at
\* least 0.8; suspicious_input is true only for a quote with no task or
\* with zero-priced tasks only, never for a positive total_price.
C10_ConfidenceLevels ==
    /\ \A k \in 1..Len(tasks_out) : tasks_out[k].confidence \in {80, 100}
    /\ pc = "done" =>
        LET ts == TasksOf(out_json)
            s == out_json.summary
        IN  /\ s.confidence_score = 0 \/ s.confidence_score >= 80
            /\ s.confidence_score = 0 <=> SumOver(ExactTotal, ts, Len(ts)) = 0
            /\ s.suspicious_input => \A k \in 1..Len(ts) : ExactTotal(ts[k]) = 0
            /\ s.total_price > 0 => ~s.suspicious_input

\* A returned quote that is flagged although it has a task: the task is
\* zero-priced.
C10_Witness ==
    /\ pc = "done"
    /\ TasksOf(out_json) # <<>>
    /\ out_json.summary.suspicious_input
====
